---- MODULE Spec2Model ----
(***************************************************************************)
(* ColumnVector<T> (dbms/src/Columns/ColumnVector.cpp): the fixed-width    *)
(* numeric column.  A row is the sequence of its sizeof(T) bytes in memory *)
(* (little-endian, the x86 layout the SSE2 branch is compiled for), so     *)
(* that memcpy, memset and reinterpret_cast act on what they act on in the *)
(* program.  `data` is the column, `arena` the bytes of the arena region   *)
(* being continued, `hash` the bytes fed to the hash so far, `op` the call *)
(* in progress (name and arguments), `ret` what the call produced and      *)
(* `calls` the number of calls made on the column.                         *)
(***************************************************************************)
EXTENDS Integers, Sequences, FiniteSets, TLC

VARIABLES T, sse2, data, arena, hash, op, ret, calls

vars == <<T, sse2, data, arena, hash, op, ret, calls>>

\* ------------------------------------------------------------------ bounds
MaxFilterLen == 18
MaxLen == 3
MaxSize == 5

\* ------------------------------------------------------- element types
\* The explicit instantiations of the template.
Types ==
    {"UInt8", "UInt16", "UInt32", "UInt64",
     "Int8", "Int16", "Int32", "Int64",
     "Float32", "Float64"}

IsFloat(t) == t \in {"Float32", "Float64"}

IsSigned(t) == t \in {"Int8", "Int16", "Int32", "Int64"}

\* sizeof(T)
sizeofT(t) ==
    CASE t \in {"UInt8", "Int8"} -> 1
      [] t \in {"UInt16", "Int16"} -> 2
      [] t \in {"UInt32", "Int32", "Float32"} -> 4
      [] OTHER -> 8

RECURSIVE ShiftRight8(_, _)
\* v >> (8 * k), arithmetic
ShiftRight8(v, k) == IF k = 0 THEN v ELSE ShiftRight8(v \div 256, k - 1)

\* The w bytes of the integer v in two's complement, least significant first.
Enc(v, w) == [k \in 1 .. w |-> ShiftRight8(v, k - 1) % 256]

\* The row whose two most significant bytes are hi and lo2, the rest zero
\* (enough to write 0.0, -0.0, 1.0, -1.0, 2.0 and a quiet NaN in both widths).
TopBytes(w, hi, lo2) == [k \in 1 .. w |-> IF k = w THEN hi ELSE IF k = w - 1 THEN lo2 ELSE 0]

ZeroRow(t) == Enc(0, sizeofT(t))

\* The quiet NaN of T: 0x7FC00000 / 0x7FF8000000000000.
QuietNaN(t) == IF t = "Float32" THEN TopBytes(4, 127, 192) ELSE TopBytes(8, 127, 248)

\* The rows the calls are tried on: 0, 1, 2 and -1 (= the maximum of an
\* unsigned T) for the integer types; 1.0, 2.0, -1.0, -0.0, 0.0 and two
\* NaNs for the floating-point types.
Values(t) ==
    IF t = "Float32"
    THEN {TopBytes(4, 63, 128), TopBytes(4, 64, 0), TopBytes(4, 191, 128),
          TopBytes(4, 128, 0), TopBytes(4, 0, 0), TopBytes(4, 127, 192),
          TopBytes(4, 255, 192)}
    ELSE IF t = "Float64"
    THEN {TopBytes(8, 63, 240), TopBytes(8, 64, 0), TopBytes(8, 191, 240),
          TopBytes(8, 128, 0), TopBytes(8, 0, 0), TopBytes(8, 127, 248),
          TopBytes(8, 255, 248)}
    ELSE {Enc(0, sizeofT(t)), Enc(1, sizeofT(t)), Enc(2, sizeofT(t)), Enc(-1, sizeofT(t))}

\* All columns of at most n rows over the rows of `vals`.
Columns(vals, n) == UNION {[1 .. k -> vals] : k \in 0 .. n}

\* The column i |-> encoding of i: n distinct rows (n < 256).
Iota(t, n) == [i \in 1 .. n |-> Enc(i, sizeofT(t))]

\* ------------------------------------------------------------- results
Pending == [kind |-> "pending"]

NoCall == [name |-> "none"]

\* A thrown DB::Exception with the given error code.
Throw(code) == [kind |-> code]

\* --------------------------------------------------------------- filter
SIMD_BYTES == 16

\* _mm_movemask_epi8(_mm_cmpgt_epi8(load(filt_pos), zero16)): bit i is set
\* when byte i, read as a SIGNED 8-bit integer, is greater than zero.
SignedByte(b) == IF b >= 128 THEN b - 256 ELSE b

RECURSIVE MoveMaskCmpGt(_, _, _)
MoveMaskCmpGt(filt, pos, i) ==
    IF i = SIMD_BYTES THEN 0
    ELSE (IF SignedByte(filt[pos + i + 1]) > 0 THEN 2 ^ i ELSE 0)
         + MoveMaskCmpGt(filt, pos, i + 1)

RECURSIVE ScalarScan(_, _, _, _, _)
\* for (; pos < end; ++pos) if (filt[pos]) res.push_back(d[pos]);  (0-based pos)
ScalarScan(d, filt, pos, end, res) ==
    IF pos >= end THEN res
    ELSE ScalarScan(d, filt, pos + 1, end,
                    IF filt[pos + 1] # 0 THEN Append(res, d[pos + 1]) ELSE res)

RECURSIVE SseLoop(_, _, _, _, _)
\* The loop over whole batches; returns <<filt_pos, res_data>>.
SseLoop(d, filt, pos, endSse, res) ==
    IF pos >= endSse THEN <<pos, res>>
    ELSE LET mask == MoveMaskCmpGt(filt, pos, 0)
             res2 == IF mask = 0 THEN res
                     ELSE IF mask = 65535 THEN res \o SubSeq(d, pos + 1, pos + SIMD_BYTES)
                     ELSE ScalarScan(d, filt, pos, pos + SIMD_BYTES, res)
         IN SseLoop(d, filt, pos + SIMD_BYTES, endSse, res2)

\* filter(filt, result_size_hint); sse is whether __SSE2__ is defined.
filter(d, filt, hint, sse) ==
    LET size == Len(d) IN
    IF size # Len(filt) THEN Throw("SIZES_OF_COLUMNS_DOESNT_MATCH")
    ELSE LET reserved == IF hint # 0 THEN (IF hint > 0 THEN hint ELSE size) ELSE 0
             endSse == (size \div SIMD_BYTES) * SIMD_BYTES
             batches == IF sse THEN SseLoop(d, filt, 0, endSse, <<>>) ELSE <<0, <<>>>>
         IN [kind |-> "ok",
             col |-> ScalarScan(d, filt, batches[1], size, batches[2]),
             reserved |-> reserved]

Filter ==
    /\ op.name = "filter"
    /\ ret = Pending
    /\ ret' = filter(data, op.filt, op.hint, sse2)
    /\ UNCHANGED <<T, sse2, data, arena, hash, op, calls>>

\* Filter masks: value v on the rows lo..hi and w elsewhere.
MaskBytes == {0, 1, 128}

Hints == {-1, 0, 2}

IntervalMasks(n) ==
    {[i \in 1 .. n |-> IF lo <= i /\ i <= hi THEN v ELSE w] :
        lo \in 1 .. n, hi \in 1 .. n, v \in MaskBytes, w \in MaskBytes}
    \cup {[i \in 1 .. n |-> 0]}

InitFilter ==
    /\ T \in Types
    /\ sse2 \in BOOLEAN
    /\ \E n \in 0 .. MaxFilterLen :
          /\ data = Iota(T, n)
          /\ \E f \in IntervalMasks(n), h \in Hints :
                op = [name |-> "filter", filt |-> f, hint |-> h]
    /\ ret = Pending
    /\ arena = <<>>
    /\ hash = <<>>
    /\ calls = 1

SpecFilter == InitFilter /\ [][Filter]_vars

\* The elementwise filter: the rows i with mask[i] # 0, in order.
RECURSIVE NaiveFilter(_, _)
NaiveFilter(d, mask) ==
    IF d = <<>> THEN <<>>
    ELSE (IF Head(mask) # 0 THEN <<Head(d)>> ELSE <<>>) \o NaiveFilter(Tail(d), Tail(mask))

\* C1: for every mask of the column's length, with bytes of any value, and
\* every size hint, filter returns exactly the rows with a nonzero mask byte,
\* in order.
C1_FilterIsElementwise ==
    (op.name = "filter" /\ ret # Pending /\ Len(op.filt) = Len(data))
        => (ret.kind = "ok" /\ ret.col = NaiveFilter(data, op.filt))

\* --------------------------------------------------------- cloneResized
\* The bytes of a column, row after row, and back.
RECURSIVE Flatten(_)
Flatten(d) == IF d = <<>> THEN <<>> ELSE Head(d) \o Flatten(Tail(d))

Unflatten(bytes, w) == [i \in 1 .. (Len(bytes) \div w) |-> SubSeq(bytes, (i - 1) * w + 1, i * w)]

\* memcpy(dst + dstOff, src + srcOff, n) on byte sequences (0-based offsets).
memcpy(dst, dstOff, src, srcOff, n) ==
    [k \in 1 .. Len(dst) |->
        IF dstOff < k /\ k <= dstOff + n THEN src[srcOff + (k - dstOff)] ELSE dst[k]]

\* memset(dst + off, value, n): n BYTES are set to (unsigned char) value.
memset(dst, off, value, n) ==
    [k \in 1 .. Len(dst) |-> IF off < k /\ k <= off + n THEN value % 256 ELSE dst[k]]

\* What memory that was allocated and never written may hold: zero pages or
\* a previous owner's bytes.
GarbageBytes == {0, 170}

\* PODArray::resize(n) of an empty array: n * sizeof(T) bytes, none written.
Uninitialized(n, w, g) == [k \in 1 .. n * w |-> g]

Min(a, b) == IF a < b THEN a ELSE b

\* cloneResized(size); g is what the new buffer held when it was allocated.
cloneResized(t, d, size, g) ==
    IF size > 0
    THEN LET w == sizeofT(t)
             buf0 == Uninitialized(size, w, g)
             count == Min(Len(d), size)
             buf1 == memcpy(buf0, 0, Flatten(d), 0, count * w)
             buf2 == IF size > count THEN memset(buf1, count * w, 0, size - count) ELSE buf1
         IN [kind |-> "ok", col |-> Unflatten(buf2, w)]
    ELSE [kind |-> "ok", col |-> <<>>]

CloneResized ==
    /\ op.name = "cloneResized"
    /\ ret = Pending
    /\ \E g \in GarbageBytes : ret' = cloneResized(T, data, op.size, g)
    /\ UNCHANGED <<T, sse2, data, arena, hash, op, calls>>

InitClone ==
    /\ T \in Types
    /\ sse2 \in BOOLEAN
    /\ data \in Columns(Values(T), MaxLen)
    /\ \E n \in 0 .. MaxSize : op = [name |-> "cloneResized", size |-> n]
    /\ ret = Pending
    /\ arena = <<>>
    /\ hash = <<>>
    /\ calls = 1

SpecClone == InitClone /\ [][CloneResized]_vars

\* C2: cloneResized(newSize) has newSize rows, the first min(oldSize, newSize)
\* equal to the source rows and every row from oldSize on all-zero bytes,
\* whatever the new buffer held before.
C2_CloneResizedZeroFills ==
    (op.name = "cloneResized" /\ ret # Pending)
        => /\ ret.kind = "ok"
           /\ Len(ret.col) = op.size
           /\ \A i \in 1 .. op.size :
                 ret.col[i] = IF i <= Len(data) THEN data[i] ELSE ZeroRow(T)

\* ------------------------------------------------------ size_t arithmetic
\* A size_t is 64 bits wide: four 16-bit limbs, least significant first.
LimbBase == 65536

NumLimbs == 4

SizeT(n) == <<n % LimbBase, (n \div LimbBase) % LimbBase, 0, 0>>

\* 2^64 - n, for 0 < n <= 65536.
SizeTMinus(n) == <<LimbBase - n, LimbBase - 1, LimbBase - 1, LimbBase - 1>>

RECURSIVE AddLimbs(_, _, _, _)
AddLimbs(a, b, i, carry) ==
    IF i > NumLimbs THEN <<>>
    ELSE LET s == a[i] + b[i] + carry
         IN <<s % LimbBase>> \o AddLimbs(a, b, i + 1, s \div LimbBase)

\* a + b in size_t: the sum modulo 2^64.
SizeTAdd(a, b) == AddLimbs(a, b, 1, 0)

RECURSIVE LimbsLess(_, _, _)
LimbsLess(a, b, i) ==
    IF i = 0 THEN FALSE
    ELSE IF a[i] # b[i] THEN a[i] < b[i]
    ELSE LimbsLess(a, b, i - 1)

\* a < b in size_t
SizeTLess(a, b) == LimbsLess(a, b, NumLimbs)

\* Whether the size_t is below 2^31, and then its value.
IsSmall(a) == a[4] = 0 /\ a[3] = 0 /\ a[2] < 32768

ToNat(a) == a[1] + LimbBase * a[2]

\* -------------------------------------------------------- insertRangeFrom
\* PODArray::resize(n): the first min(old, n) rows stay, new rows are not
\* written (g is what their memory held).
resize(d, n, w, g) == [i \in 1 .. n |-> IF i <= Len(d) THEN d[i] ELSE [k \in 1 .. w |-> g]]

\* insertRangeFrom(src, start, length): the set of outcomes [kind, data].
\* start and length are size_t; self says that src is this very column, so
\* that src_vec.data is the resized buffer when memcpy reads it.
insertRangeFrom(t, d, src, self, start, length) ==
    IF SizeTLess(SizeT(Len(src)), SizeTAdd(start, length))
    THEN {[kind |-> "PARAMETER_OUT_OF_BOUND", data |-> d]}
    ELSE LET w == sizeofT(t)
             old_size == Len(d)
             new_size == SizeTAdd(SizeT(old_size), length)
         IN IF ~IsSmall(new_size)
            \* resize to 2^31 rows or more: the allocation fails.
            THEN {[kind |-> "CANNOT_ALLOCATE_MEMORY", data |-> d]}
            ELSE IF IsSmall(start) /\ IsSmall(length)
                    /\ ToNat(start) + ToNat(length) <= Len(src)
            THEN {[kind |-> "ok",
                   data |-> LET from == IF self THEN resize(d, ToNat(new_size), w, g) ELSE src
                            IN Unflatten(
                                   memcpy(Flatten(resize(d, ToNat(new_size), w, g)), old_size * w,
                                          Flatten(from), ToNat(start) * w, ToNat(length) * w),
                                   w)] : g \in GarbageBytes}
            \* memcpy reads outside src (undefined): the process dies, or the
            \* rows it wrote hold whatever was there.
            ELSE {[kind |-> "SIGSEGV", data |-> resize(d, ToNat(new_size), w, g)] :
                      g \in GarbageBytes}
                 \cup (IF IsSmall(length)
                       THEN {[kind |-> "ok", data |-> resize(d, ToNat(new_size), w, g)] :
                                g \in GarbageBytes}
                       ELSE {})

InsertRangeFrom ==
    /\ op.name = "insertRangeFrom"
    /\ ret = Pending
    /\ \E o \in insertRangeFrom(T, data, IF op.self THEN data ELSE op.src, op.self,
                                op.start, op.length) :
          /\ ret' = [kind |-> o.kind]
          /\ data' = o.data
    /\ UNCHANGED <<T, sse2, arena, hash, op, calls>>

\* start and length: 0 .. MaxLen + 1, and the last two values of size_t.
SizeTInputs == {SizeT(n) : n \in 0 .. MaxLen + 1} \cup {SizeTMinus(1), SizeTMinus(2)}

InsertCalls(t, d, srcs) ==
    {[name |-> "insertRangeFrom", self |-> FALSE, src |-> s, start |-> a, length |-> b] :
        s \in srcs, a \in SizeTInputs, b \in SizeTInputs}
    \cup {[name |-> "insertRangeFrom", self |-> TRUE, src |-> <<>>, start |-> a, length |-> b] :
        a \in SizeTInputs, b \in SizeTInputs}

InitInsert ==
    /\ T \in Types
    /\ sse2 \in BOOLEAN
    /\ data \in Columns(Values(T), MaxLen - 1)
    /\ op \in InsertCalls(T, data, Columns({Enc(1, sizeofT(T)), Enc(2, sizeofT(T))}, MaxLen - 1))
    /\ ret = Pending
    /\ arena = <<>>
    /\ hash = <<>>
    /\ calls = 1

SpecInsert == InitInsert /\ [][InsertRangeFrom]_vars

\* The source column of the call.
SourceOf(o, d) == IF o.self THEN d ELSE o.src

\* Whether start + length, as natural numbers, exceeds n: the sum wraps, or
\* the wrapped sum is greater than n.
TrueSumExceeds(start, length, n) ==
    \/ SizeTLess(SizeTAdd(start, length), start)
    \/ SizeTLess(SizeT(n), SizeTAdd(start, length))

\* C3: whenever start + length (the true sum) is greater than the source
\* length, insertRangeFrom fails with the out-of-bounds error and leaves
\* the column as it was.
C3_InsertOutOfBoundsFails ==
    [][(op.name = "insertRangeFrom" /\ ret = Pending /\ ret' # Pending
        /\ TrueSumExceeds(op.start, op.length, Len(SourceOf(op, data))))
          => (ret'.kind = "PARAMETER_OUT_OF_BOUND" /\ data' = data)]_vars

\* ------------------------------------------------------- comparing rows
RECURSIVE BytesLess(_, _, _)
\* a < b as unsigned integers, from byte k (most significant first) down.
BytesLess(a, b, k) ==
    IF k = 0 THEN FALSE
    ELSE IF a[k] # b[k] THEN a[k] < b[k]
    ELSE BytesLess(a, b, k - 1)

\* The sign bit of a row.
SignBit(x) == x[Len(x)] >= 128

\* The row with its sign bit cleared.
Magnitude(x) == [k \in 1 .. Len(x) |-> IF k = Len(x) THEN x[k] % 128 ELSE x[k]]

IsZeroRow(x) == \A k \in 1 .. Len(x) : x[k] = 0

\* isNaN(x): false for an integer T; for a floating-point T, all exponent
\* bits set and a nonzero mantissa.
isNaN(t, x) ==
    CASE t = "Float32" ->
            /\ x[4] % 128 = 127 /\ x[3] >= 128
            /\ (x[3] % 128 # 0 \/ x[2] # 0 \/ x[1] # 0)
      [] t = "Float64" ->
            /\ x[8] % 128 = 127 /\ x[7] \div 16 = 15
            /\ (x[7] % 16 # 0 \/ \E k \in 1 .. 6 : x[k] # 0)
      [] OTHER -> FALSE

\* NaNOrZero<T>(): a NaN for a floating-point T, zero for an integer T.
NaNOrZero(t) == IF IsFloat(t) THEN QuietNaN(t) ELSE ZeroRow(t)

\* a < b on values of type T (the built-in operator <).
valueLess(t, a, b) ==
    IF IsFloat(t)
    THEN IF isNaN(t, a) \/ isNaN(t, b) THEN FALSE
         ELSE IF IsZeroRow(Magnitude(a)) /\ IsZeroRow(Magnitude(b)) THEN FALSE
         ELSE IF SignBit(a) # SignBit(b) THEN SignBit(a)
         ELSE IF SignBit(a) THEN BytesLess(Magnitude(b), Magnitude(a), Len(a))
         ELSE BytesLess(Magnitude(a), Magnitude(b), Len(a))
    ELSE IF IsSigned(t) /\ SignBit(a) # SignBit(b) THEN SignBit(a)
    ELSE BytesLess(a, b, Len(a))

\* ---------------------------------------------------------- getPermutation
\* The comparators over row numbers (0-based, as in the permutation).
less(t, d, lhs, rhs) == valueLess(t, d[lhs + 1], d[rhs + 1])

greater(t, d, lhs, rhs) == valueLess(t, d[rhs + 1], d[lhs + 1])

\* The comparator object handed to the sort: greater(*this) or less(*this),
\* as the table of its answers on the row numbers.
Comparator(t, d, isGreater) ==
    [a \in 0 .. Len(d) - 1, b \in 0 .. Len(d) - 1 |->
        IF isGreater THEN greater(t, d, a, b) ELSE less(t, d, a, b)]

RECURSIVE Orderings(_)
\* The sequences that hold each element of S once.
Orderings(S) ==
    IF S = {} THEN {<<>>}
    ELSE UNION {{<<x>> \o q : q \in Orderings(S \ {x})} : x \in S}

\* The rearrangements of a sequence.
Rearrangements(s) == {[i \in 1 .. Len(s) |-> s[q[i]]] : q \in Orderings(1 .. Len(s))}

\* std::sort(first, last, comp): any rearrangement in which no element
\* precedes one that comp puts before it (equal elements in any order).
std_sort(s, comp) ==
    {p \in Rearrangements(s) : \A i, j \in 1 .. Len(s) : i < j => ~comp[p[j], p[i]]}

\* std::partial_sort(first, first + middle, last, comp): the first `middle`
\* places hold the `middle` first elements in order, the others follow in
\* any order.
std_partial_sort(s, middle, comp) ==
    {p \in Rearrangements(s) :
        \A i, j \in 1 .. Len(s) : (i < j /\ i <= middle) => ~comp[p[j], p[i]]}

\* getPermutation with the two comparators exchanged.
getPermutation_ComparatorsSwapped(t, d, reverse, limit) ==
    LET s == Len(d)
        res == [i \in 1 .. s |-> i - 1]
        lim == IF limit >= s THEN 0 ELSE limit
    IN IF lim # 0
       THEN IF reverse
            THEN std_partial_sort(res, lim, Comparator(t, d, FALSE))
            ELSE std_partial_sort(res, lim, Comparator(t, d, TRUE))
       ELSE IF reverse
            THEN std_sort(res, Comparator(t, d, FALSE))
            ELSE std_sort(res, Comparator(t, d, TRUE))

\* getPermutation(reverse, limit, res): the set of values res may hold.
getPermutation(t, d, reverse, limit) ==
    LET s == Len(d)
        res == [i \in 1 .. s |-> i - 1]
        lim == IF limit >= s THEN 0 ELSE limit
    IN IF lim # 0
       THEN IF reverse
            THEN std_partial_sort(res, lim, Comparator(t, d, TRUE))
            ELSE std_partial_sort(res, lim, Comparator(t, d, FALSE))
       ELSE IF reverse
            THEN std_sort(res, Comparator(t, d, TRUE))
            ELSE std_sort(res, Comparator(t, d, FALSE))

GetPermutation ==
    /\ op.name = "getPermutation"
    /\ ret = Pending
    /\ \E p \in getPermutation(T, data, op.reverse, op.limit) :
          ret' = [kind |-> "ok", res |-> p]
    /\ UNCHANGED <<T, sse2, data, arena, hash, op, calls>>

IntegerTypes == {t \in Types : ~IsFloat(t)}

InitSort ==
    /\ T \in IntegerTypes
    /\ sse2 \in BOOLEAN
    /\ data \in Columns(Values(T), MaxLen)
    /\ \E r \in BOOLEAN, l \in 0 .. MaxLen + 1 :
          op = [name |-> "getPermutation", reverse |-> r, limit |-> l]
    /\ ret = Pending
    /\ arena = <<>>
    /\ hash = <<>>
    /\ calls = 1

SpecSort == InitSort /\ [][GetPermutation]_vars

\* The number of leading places the claim speaks of.
SortedPrefix(n, limit) == IF limit = 0 \/ limit >= n THEN n ELSE limit

\* a comes no later than b in the order asked for.
NotAfter(t, reverse, a, b) == IF reverse THEN ~valueLess(t, a, b) ELSE ~valueLess(t, b, a)

\* C4: for an integer column of n rows, res has length n and holds each of
\* 0..n-1 once; the rows read at its first k places are in the order asked
\* for, and none of the rows read at the later places comes before them.
C4_PermutationSortsPrefix ==
    (op.name = "getPermutation" /\ ret # Pending /\ ~IsFloat(T))
        => LET n == Len(data)
               k == SortedPrefix(n, op.limit)
               p == ret.res
           IN /\ Len(p) = n
              /\ \A v \in 0 .. n - 1 : Cardinality({i \in 1 .. n : p[i] = v}) = 1
              /\ \A i \in 1 .. k : \A j \in i + 1 .. n :
                    NotAfter(T, op.reverse, data[p[i] + 1], data[p[j] + 1])

C4_Witness ==
    /\ op.name = "getPermutation" /\ ret # Pending
    /\ Len(data) = 3 /\ op.limit = 2 /\ op.reverse
    /\ ret.res # <<0, 1, 2>>
    /\ valueLess(T, data[1], data[2])

\* ---------------------------------------------------------------- permute
\* permute without the std::min: a limit beyond the column is kept.
permute_LimitNotClamped(d, perm, limit) ==
    LET size == Len(d)
        lim == IF limit = 0 THEN size ELSE limit
    IN IF Len(perm) < lim
       THEN Throw("SIZES_OF_COLUMNS_DOESNT_MATCH")
       ELSE [kind |-> "ok", col |-> [i \in 1 .. lim |-> d[perm[i] + 1]]]

\* permute(perm, limit); every perm[i] read is a row number of the column
\* (the caller's contract).
permute(d, perm, limit) ==
    LET size == Len(d)
        lim == IF limit = 0 THEN size ELSE Min(size, limit)
    IN IF Len(perm) < lim
       THEN Throw("SIZES_OF_COLUMNS_DOESNT_MATCH")
       ELSE [kind |-> "ok", col |-> [i \in 1 .. lim |-> d[perm[i] + 1]]]

Permute ==
    /\ op.name = "permute"
    /\ ret = Pending
    /\ ret' = permute(data, op.perm, op.limit)
    /\ UNCHANGED <<T, sse2, data, arena, hash, op, calls>>

\* Index sequences of at most m entries, each a row number of a column of
\* n rows (repeats allowed).
IndexSeqs(n, m) == UNION {[1 .. k -> 0 .. n - 1] : k \in 0 .. m}

InitPermute ==
    /\ T \in Types
    /\ sse2 \in BOOLEAN
    /\ \E n \in 0 .. MaxLen :
          /\ data = Iota(T, n)
          /\ \E p \in IndexSeqs(n, MaxLen + 1), l \in 0 .. MaxLen + 1 :
                op = [name |-> "permute", perm |-> p, limit |-> l]
    /\ ret = Pending
    /\ arena = <<>>
    /\ hash = <<>>
    /\ calls = 1

SpecPermute == InitPermute /\ [][Permute]_vars

EffectiveLimit(n, limit) == IF limit = 0 THEN n ELSE IF limit < n THEN limit ELSE n

\* C5: permute fails with the size-mismatch error exactly when perm is
\* shorter than the effective limit, and otherwise returns effectiveLimit
\* rows, row i being source row perm[i].
C5_PermuteSelectsRows ==
    (op.name = "permute" /\ ret # Pending)
        => LET e == EffectiveLimit(Len(data), op.limit)
           IN /\ (ret.kind = "SIZES_OF_COLUMNS_DOESNT_MATCH") <=> (Len(op.perm) < e)
              /\ Len(op.perm) >= e
                    => /\ ret.kind = "ok"
                       /\ Len(ret.col) = e
                       /\ \A i \in 1 .. e : ret.col[i] = data[op.perm[i] + 1]

\* perm is longer than the rows asked for and reorders them.
C5_Witness ==
    /\ op.name = "permute" /\ ret # Pending /\ ret.kind = "ok"
    /\ op.limit = 2 /\ Len(op.perm) = 3 /\ Len(data) = 3
    /\ op.perm = <<2, 0, 1>>
    /\ ret.col = <<data[3], data[1]>>

\* -------------------------------------------------------------- replicate
RECURSIVE Repeat(_, _, _)
\* for (j = 0; j < n; ++j) res.push_back(x);
Repeat(res, x, n) == IF n = 0 THEN res ELSE Repeat(Append(res, x), x, n - 1)

RECURSIVE ReplicateLoop_PrevNotUpdated(_, _, _, _, _)
\* The loop without `prev_offset = offsets[i]`.
ReplicateLoop_PrevNotUpdated(d, offsets, i, prev_offset, res) ==
    IF i > Len(d) THEN [kind |-> "ok", col |-> res]
    ELSE IF offsets[i] < prev_offset THEN Throw("CANNOT_ALLOCATE_MEMORY")
    ELSE ReplicateLoop_PrevNotUpdated(d, offsets, i + 1, prev_offset,
                                      Repeat(res, d[i], offsets[i] - prev_offset))

RECURSIVE ReplicateLoop(_, _, _, _, _)
\* The loop over the rows; offsets[i] - prev_offset in size_t wraps below
\* zero to 2^64 - (prev_offset - offsets[i]) rows, more than can be held.
ReplicateLoop(d, offsets, i, prev_offset, res) ==
    IF i > Len(d) THEN [kind |-> "ok", col |-> res]
    ELSE IF offsets[i] < prev_offset THEN Throw("CANNOT_ALLOCATE_MEMORY")
    ELSE ReplicateLoop(d, offsets, i + 1, offsets[i],
                       Repeat(res, d[i], offsets[i] - prev_offset))

\* replicate with the empty-column return before the length check.
replicate_EmptyFirst(d, offsets) ==
    LET size == Len(d)
    IN IF 0 = size THEN [kind |-> "ok", col |-> <<>>]
       ELSE IF size # Len(offsets) THEN Throw("SIZES_OF_COLUMNS_DOESNT_MATCH")
       ELSE ReplicateLoop(d, offsets, 1, 0, <<>>)

\* replicate(offsets)
replicate(d, offsets) ==
    LET size == Len(d)
    IN IF size # Len(offsets) THEN Throw("SIZES_OF_COLUMNS_DOESNT_MATCH")
       ELSE IF 0 = size THEN [kind |-> "ok", col |-> <<>>]
       ELSE ReplicateLoop(d, offsets, 1, 0, <<>>)

Replicate ==
    /\ op.name = "replicate"
    /\ ret = Pending
    /\ ret' = replicate(data, op.offsets)
    /\ UNCHANGED <<T, sse2, data, arena, hash, op, calls>>

MaxOffset == 3

\* Offsets of at most m entries, monotone or not.
OffsetSeqs(m) == UNION {[1 .. k -> 0 .. MaxOffset] : k \in 0 .. m}

InitReplicate ==
    /\ T \in Types
    /\ sse2 \in BOOLEAN
    /\ \E n \in 0 .. MaxLen :
          /\ data = Iota(T, n)
          /\ \E o \in OffsetSeqs(MaxLen) : op = [name |-> "replicate", offsets |-> o]
    /\ ret = Pending
    /\ arena = <<>>
    /\ hash = <<>>
    /\ calls = 1

SpecReplicate == InitReplicate /\ [][Replicate]_vars

Monotone(o) == \A i \in 1 .. Len(o) - 1 : o[i] <= o[i + 1]

\* offsets[i - 1], with offsets[-1] = 0 (i is 1-based here).
PrevOffset(o, i) == IF i = 1 THEN 0 ELSE o[i - 1]

\* C6: for a non-empty column and non-decreasing offsets of its length, the
\* result has offsets.last() rows, and the places offsets[i-1] ..
\* offsets[i] - 1 hold source row i.
C6_ReplicateRepeatsRows ==
    (op.name = "replicate" /\ ret # Pending /\ Len(data) > 0
     /\ Len(op.offsets) = Len(data) /\ Monotone(op.offsets))
        => /\ ret.kind = "ok"
           /\ Len(ret.col) = op.offsets[Len(data)]
           /\ \A i \in 1 .. Len(data) :
                 \A q \in PrevOffset(op.offsets, i) + 1 .. op.offsets[i] :
                    ret.col[q] = data[i]

\* A row with a zero difference between two rows that are repeated.
C6_Witness ==
    /\ op.name = "replicate" /\ ret # Pending
    /\ Len(data) = 3 /\ op.offsets = <<2, 2, 3>>
    /\ ret.col = <<data[1], data[1], data[3]>>

\* C7 as stated: on an empty column replicate returns an empty column for
\* every offsets argument, and raises no error.
C7_EmptyIgnoresOffsets ==
    (op.name = "replicate" /\ ret # Pending /\ Len(data) = 0)
        => (ret.kind = "ok" /\ ret.col = <<>>)

\* C7 amended: on an empty column replicate returns an empty column when
\* offsets is empty too, and fails with the size-mismatch error when offsets
\* has any entry (the length check comes before the short-circuit).
C7_EmptyChecksLengthFirst ==
    (op.name = "replicate" /\ ret # Pending /\ Len(data) = 0)
        => IF Len(op.offsets) = 0
           THEN ret.kind = "ok" /\ ret.col = <<>>
           ELSE ret.kind = "SIZES_OF_COLUMNS_DOESNT_MATCH"

C7_Witness ==
    /\ op.name = "replicate" /\ Len(data) = 0 /\ Len(op.offsets) = 2
    /\ ret.kind = "SIZES_OF_COLUMNS_DOESNT_MATCH"

\* ------------------------------------------------- arena serialization
\* Arena::allocContinue(size, begin): the region that starts at `begin` is
\* continued by `size` bytes; returns the region and the place of the new
\* bytes in it.
allocContinue(region, size, g) ==
    [region |-> region \o [k \in 1 .. size |-> g], pos |-> Len(region)]

\* serializeValueIntoArena(n, arena, begin): the arena region afterwards
\* and the StringRef returned (place in the region, size).
serializeValueIntoArena(t, d, n, region, g) ==
    LET a == allocContinue(region, sizeofT(t), g)
    IN [kind |-> "ok",
        region |-> memcpy(a.region, a.pos, d[n + 1], 0, sizeofT(t)),
        ref |-> [pos |-> a.pos, size |-> sizeofT(t)]]

SerializeValueIntoArena ==
    /\ op.name = "serializeValueIntoArena"
    /\ ret = Pending
    /\ \E g \in GarbageBytes :
          LET r == serializeValueIntoArena(T, data, op.n, arena, g)
          IN /\ arena' = r.region
             /\ ret' = [kind |-> r.kind, ref |-> r.ref]
    /\ UNCHANGED <<T, sse2, data, hash, op, calls>>

\* deserializeAndInsertFromArena that reads one byte and widens it.
deserializeAndInsertFromArena_OneByte(t, d, region, pos) ==
    [kind |-> "ok",
     data |-> Append(d, [k \in 1 .. sizeofT(t) |-> IF k = 1 THEN region[pos + 1] ELSE 0]),
     pos |-> pos + sizeofT(t)]

\* deserializeAndInsertFromArena(pos): the column afterwards and the
\* position returned.  pos .. pos + sizeof(T) lies in the region.
deserializeAndInsertFromArena(t, d, region, pos) ==
    [kind |-> "ok",
     data |-> Append(d, SubSeq(region, pos + 1, pos + sizeofT(t))),
     pos |-> pos + sizeofT(t)]

DeserializeAndInsertFromArena ==
    /\ op.name = "deserializeAndInsertFromArena"
    /\ ret = Pending
    /\ LET r == deserializeAndInsertFromArena(T, data, arena, op.pos)
       IN /\ data' = r.data
          /\ ret' = [kind |-> r.kind, pos |-> r.pos]
    /\ UNCHANGED <<T, sse2, arena, hash, op, calls>>

\* updateHashWithValue(n, hash): SipHash::update(&data[n], sizeof(T)); the
\* hash is kept as the bytes fed to it.
updateHashWithValue(t, d, n, h) == h \o SubSeq(d[n + 1], 1, sizeofT(t))

UpdateHashWithValue ==
    /\ op.name = "updateHashWithValue"
    /\ ret = Pending
    /\ hash' = updateHashWithValue(T, data, op.n, hash)
    /\ ret' = [kind |-> "ok"]
    /\ UNCHANGED <<T, sse2, data, arena, op, calls>>

\* The caller reads back what it has just serialized: the position it
\* passes is the StringRef's; `row` remembers which row that was.
ReadBack ==
    /\ op.name = "serializeValueIntoArena"
    /\ ret # Pending
    /\ op' = [name |-> "deserializeAndInsertFromArena", pos |-> ret.ref.pos, row |-> op.n]
    /\ ret' = Pending
    /\ calls' = calls + 1
    /\ UNCHANGED <<T, sse2, data, arena, hash>>

\* What the region holds before the call: nothing, or another column's
\* contribution to the key (one byte, so that positions are not multiples
\* of sizeof(T)).
Regions == {<<>>, <<7>>}

InitArena ==
    /\ T \in Types
    /\ sse2 \in BOOLEAN
    /\ data \in Columns(Values(T), MaxLen)
    /\ \E n \in 0 .. Len(data) - 1 : op = [name |-> "serializeValueIntoArena", n |-> n]
    /\ ret = Pending
    /\ arena \in Regions
    /\ hash = <<>>
    /\ calls = 1

NextArena == SerializeValueIntoArena \/ ReadBack \/ DeserializeAndInsertFromArena

SpecArena == InitArena /\ [][NextArena]_vars

\* C8: serializeValueIntoArena(n) returns a view of sizeof(T) bytes (the
\* bytes of row n), and deserializeAndInsertFromArena on those bytes appends
\* one row with the bytes of row n, keeps the earlier rows and returns the
\* position advanced by sizeof(T).
C8_SerializeRoundTrip ==
    [][/\ (op.name = "serializeValueIntoArena" /\ ret = Pending /\ ret' # Pending)
            => /\ ret'.ref.size = sizeofT(T)
               /\ SubSeq(arena', ret'.ref.pos + 1, ret'.ref.pos + ret'.ref.size) = data[op.n + 1]
               /\ data' = data
       /\ (op.name = "deserializeAndInsertFromArena" /\ ret = Pending /\ ret' # Pending
           /\ op.row >= 0)
            => /\ Len(data') = Len(data) + 1
               /\ \A i \in 1 .. Len(data) : data'[i] = data[i]
               /\ data'[Len(data')] = data[op.row + 1]
               /\ ret'.pos = op.pos + sizeofT(T)]_vars

\* A NaN was written behind another column's byte and read back.
C8_Witness ==
    /\ op.name = "deserializeAndInsertFromArena" /\ ret # Pending
    /\ op.pos = 1 /\ op.row = 1 /\ Len(data) = 3
    /\ isNaN(T, data[3]) /\ data[3] = data[2] /\ data[1] # data[2]

\* ------------------------------------------------------------ getExtremes
\* NearestFieldType<T>::Type: the Field type that holds a T.
NearestFieldType(t) == IF IsFloat(t) THEN "Float64" ELSE IF IsSigned(t) THEN "Int64" ELSE "UInt64"

RECURSIVE HighBit(_)
\* The place of the highest bit set in m > 0.
HighBit(m) == IF m < 2 THEN 0 ELSE 1 + HighBit(m \div 2)

\* (double) x for a float x, on the bytes.
FloatToDouble(x) ==
    LET sign == x[4] \div 128
        exp8 == (x[4] % 128) * 2 + x[3] \div 128
        mant == (x[3] % 128) * 65536 + x[2] * 256 + x[1]
        denormal == exp8 = 0 /\ mant # 0
        exp11 == IF exp8 = 255 THEN 2047
                 ELSE IF denormal THEN HighBit(mant) + 874
                 ELSE IF exp8 = 0 THEN 0
                 ELSE exp8 + 896
        m == IF denormal THEN (mant - 2 ^ HighBit(mant)) * 2 ^ (23 - HighBit(mant)) ELSE mant
    IN <<0, 0, 0, (m % 8) * 32, (m \div 8) % 256, (m \div 2048) % 256,
         (exp11 % 16) * 16 + m \div 524288, sign * 128 + exp11 \div 16>>

\* NearestFieldType<T>::Type(x): x converted to the 64-bit type, as a Field.
ToField(t, x) ==
    [type |-> NearestFieldType(t),
     value |-> IF t = "Float32" THEN FloatToDouble(x)
               ELSE [k \in 1 .. 8 |->
                        IF k <= Len(x) THEN x[k]
                        ELSE IF IsSigned(t) /\ SignBit(x) THEN 255 ELSE 0]]

\* NearestFieldType<T>::Type(0)
ZeroField(t) == [type |-> NearestFieldType(t), value |-> Enc(0, 8)]

RECURSIVE ExtremesLoop_NoNaNCheck(_, _, _, _, _, _)
\* The loop without `if (isNaN(x)) continue;`.
ExtremesLoop_NoNaNCheck(t, d, i, has_value, cur_min, cur_max) ==
    IF i > Len(d) THEN <<cur_min, cur_max>>
    ELSE LET x == d[i]
         IN IF ~has_value THEN ExtremesLoop_NoNaNCheck(t, d, i + 1, TRUE, x, x)
            ELSE ExtremesLoop_NoNaNCheck(t, d, i + 1, TRUE,
                                         IF valueLess(t, x, cur_min) THEN x ELSE cur_min,
                                         IF valueLess(t, cur_max, x) THEN x ELSE cur_max)

RECURSIVE ExtremesLoop(_, _, _, _, _, _)
\* for (const T x : data) ...; returns <<cur_min, cur_max>>.
ExtremesLoop(t, d, i, has_value, cur_min, cur_max) ==
    IF i > Len(d) THEN <<cur_min, cur_max>>
    ELSE LET x == d[i]
         IN IF isNaN(t, x) THEN ExtremesLoop(t, d, i + 1, has_value, cur_min, cur_max)
            ELSE IF ~has_value THEN ExtremesLoop(t, d, i + 1, TRUE, x, x)
            ELSE ExtremesLoop(t, d, i + 1, TRUE,
                              IF valueLess(t, x, cur_min) THEN x ELSE cur_min,
                              IF valueLess(t, cur_max, x) THEN x ELSE cur_max)

\* getExtremes(min, max)
getExtremes(t, d) ==
    IF Len(d) = 0
    THEN [kind |-> "ok", min |-> ZeroField(t), max |-> ZeroField(t)]
    ELSE LET r == ExtremesLoop(t, d, 1, FALSE, NaNOrZero(t), NaNOrZero(t))
         IN [kind |-> "ok", min |-> ToField(t, r[1]), max |-> ToField(t, r[2])]

GetExtremes ==
    /\ op.name = "getExtremes"
    /\ ret = Pending
    /\ ret' = getExtremes(T, data)
    /\ UNCHANGED <<T, sse2, data, arena, hash, op, calls>>

InitExtremes ==
    /\ T \in Types
    /\ sse2 \in BOOLEAN
    /\ data \in Columns(Values(T), MaxLen)
    /\ op = [name |-> "getExtremes"]
    /\ ret = Pending
    /\ arena = <<>>
    /\ hash = <<>>
    /\ calls = 1

SpecExtremes == InitExtremes /\ [][GetExtremes]_vars

\* The rows that are numbers.
Numbers(t, d) == {i \in 1 .. Len(d) : ~isNaN(t, d[i])}

\* C9: getExtremes returns (0, 0) on an empty column, (NaN, NaN) on a
\* non-empty column of NaNs only, and otherwise the least and the greatest
\* of the rows that are not NaN, wherever the NaNs stand.
C9_ExtremesSkipNaN ==
    (op.name = "getExtremes" /\ ret # Pending)
        => /\ ret.kind = "ok"
           /\ ret.min.type = NearestFieldType(T) /\ ret.max.type = NearestFieldType(T)
           /\ IF Len(data) = 0
              THEN IsZeroRow(ret.min.value) /\ IsZeroRow(ret.max.value)
              ELSE IF Numbers(T, data) = {}
              THEN isNaN("Float64", ret.min.value) /\ isNaN("Float64", ret.max.value)
              ELSE /\ \E i \in Numbers(T, data) :
                        /\ ret.min = ToField(T, data[i])
                        /\ \A j \in Numbers(T, data) : ~valueLess(T, data[j], data[i])
                   /\ \E i \in Numbers(T, data) :
                        /\ ret.max = ToField(T, data[i])
                        /\ \A j \in Numbers(T, data) : ~valueLess(T, data[i], data[j])

\* NaN at the first row, then two numbers, the smaller one last.
C9_Witness ==
    /\ op.name = "getExtremes" /\ ret # Pending
    /\ Len(data) = 3 /\ isNaN(T, data[1])
    /\ valueLess(T, data[3], data[2])
    /\ ret.min = ToField(T, data[3]) /\ ret.max = ToField(T, data[2])

\* ------------------------------------------- a column through its calls
MaxCalls == 2

\* The rows other columns hand over.
One(t) == Enc(1, sizeofT(t))

Two(t) == Enc(2, sizeofT(t))

\* The calls a caller may make on the column d.
CallsOn(t, d, region) ==
    LET n == Len(d)
        rows == 0 .. n - 1
    IN {[name |-> "filter", filt |-> f, hint |-> h] :
            f \in [1 .. n -> {0, 1}] \cup {<<1>>}, h \in {0, 1}}
       \cup {[name |-> "permute", perm |-> p, limit |-> l] :
                p \in IndexSeqs(n, 2), l \in 0 .. 1}
       \cup {[name |-> "replicate", offsets |-> o] :
                o \in {q \in [1 .. n -> 0 .. 2] : Monotone(q)} \cup {<<1>>}}
       \cup {[name |-> "cloneResized", size |-> k] : k \in 0 .. MaxLen}
       \cup (IF IsFloat(t) THEN {}
             ELSE {[name |-> "getPermutation", reverse |-> r, limit |-> l] :
                      r \in BOOLEAN, l \in 0 .. 1})
       \cup {[name |-> "getExtremes"]}
       \cup {[name |-> "serializeValueIntoArena", n |-> i] : i \in rows}
       \cup {[name |-> "updateHashWithValue", n |-> i] : i \in rows}
       \cup {[name |-> "deserializeAndInsertFromArena", pos |-> q, row |-> -1] :
                q \in {k \in 0 .. Len(region) : k + sizeofT(t) <= Len(region)}}
       \cup {[name |-> "insertRangeFrom", self |-> FALSE, src |-> s, start |-> a, length |-> b] :
                s \in {<<One(t)>>, <<One(t), Two(t)>>},
                a \in {SizeT(0), SizeT(1), SizeTMinus(1)},
                b \in {SizeT(0), SizeT(1), SizeT(2)}}
       \cup {[name |-> "insertRangeFrom", self |-> TRUE, src |-> <<>>, start |-> a, length |-> b] :
                a \in {SizeT(0), SizeT(1)}, b \in {SizeT(1), SizeT(2)}}

\* The caller makes its next call once the last one has returned.
Call ==
    /\ ret # Pending
    /\ calls < MaxCalls
    /\ op' \in CallsOn(T, data, arena)
    /\ ret' = Pending
    /\ calls' = calls + 1
    /\ UNCHANGED <<T, sse2, data, arena, hash>>

Init ==
    /\ T \in Types
    /\ sse2 \in BOOLEAN
    /\ data \in Columns({One(T), Two(T)}, 2)
    /\ arena = <<>>
    /\ hash = <<>>
    /\ op = NoCall
    /\ ret = [kind |-> "none"]
    /\ calls = 0

Next ==
    \/ Call
    \/ Filter
    \/ Permute
    \/ Replicate
    \/ CloneResized
    \/ GetPermutation
    \/ GetExtremes
    \/ SerializeValueIntoArena
    \/ UpdateHashWithValue
    \/ DeserializeAndInsertFromArena
    \/ InsertRangeFrom

Spec == Init /\ [][Next]_vars

ReadOnlyCalls ==
    {"filter", "permute", "replicate", "cloneResized", "getPermutation",
     "getExtremes", "serializeValueIntoArena", "updateHashWithValue"}

\* source[start .. start + length) when there are such rows; nothing equals
\* the rows of a range that is not in the source.
RangeOf(src, start, length) ==
    IF IsSmall(start) /\ IsSmall(length) /\ ToNat(start) + ToNat(length) <= Len(src)
    THEN {SubSeq(src, ToNat(start) + 1, ToNat(start) + ToNat(length))}
    ELSE {}

\* C10: the read-only calls leave the column as it was, whether they succeed
\* or fail; an insertRangeFrom that succeeds keeps the rows and appends the
\* rows source[start .. start + length), also from the column itself, and
\* deserializeAndInsertFromArena keeps the rows and appends one.
C10_ColumnOnlyGrowsByAppend ==
    [][(ret = Pending /\ ret' # Pending)
        => /\ op.name \in ReadOnlyCalls => data' = data
           /\ (op.name = "insertRangeFrom" /\ ret'.kind = "ok")
                => \E r \in RangeOf(SourceOf(op, data), op.start, op.length) :
                      data' = data \o r
           /\ op.name = "deserializeAndInsertFromArena"
                => /\ Len(data') = Len(data) + 1
                   /\ SubSeq(data', 1, Len(data)) = data]_vars

====
